---- MODULE Spec2Model ----
(***************************************************************************)
(* Per-node bucket statistics collector of the couchbase exporter          *)
(* (pkg/collectors/pernode_bucketstats.go): the sample extractor, the      *)
(* publish rule, the node resolver, the rebalance gate, the collection     *)
(* loop and the top-level orchestration.                                   *)
(*                                                                         *)
(* A Go string is a sequence of one-character strings.  A float64 is the   *)
(* exact decimal [m |-> mantissa, e |-> decimal places], normalised, so    *)
(* that "1.0" and "1" are the same number and "2.5" is not 2.  Time is in  *)
(* seconds.                                                                *)
(***************************************************************************)
EXTENDS Integers, Sequences, FiniteSets, TLC

VARIABLES
    fnCall,       \* the function applied in isolation, with its arguments
    fnRet,        \* what that application returned
    pc,           \* position of the RunPerNodeBucketStatsCollection call chain
    runLeft,      \* seconds until the node-resolution context's deadline
    gateLeft,     \* seconds until the gate context's deadline
    runTries,     \* attempts made so far by the node-resolution Retry
    gateTries,    \* attempts made so far by the rebalance-gate Retry
    rebalanced,   \* what the gate's last getClusterBalancedStatus reported
    gateErr,      \* whether that call returned an error
    node,         \* currNode handed to collectPerNodeBucketMetrics
    clusterName,  \* clusterName captured by the loop's closure
    logged,       \* the outcome lines logged by the call chain
    spawned,      \* number of `go func()` statements executed
    loopPc,       \* position of the Collection Loop goroutine
    buckets,      \* what Buckets() returned in the current cycle
    bi,           \* index in the bucket list of the next bucket to process
    fetch,        \* the loop body's current bucket: its name, the stats URL, the GET's
                  \* error and samples, and the registry writes made for it
    gauges        \* the registry: cell <<vec, bucket, node, cluster>> -> value

fnVars == <<fnCall, fnRet>>
runVars == <<pc, runLeft, gateLeft, runTries, gateTries, rebalanced, gateErr, node, clusterName, logged,
             spawned>>
loopVars == <<loopPc, buckets, bi, fetch, gauges>>
vars == <<fnCall, fnRet, pc, runLeft, gateLeft, runTries, gateTries, rebalanced, gateErr, node,
          clusterName, logged, spawned, loopPc, buckets, bi, fetch, gauges>>

-----------------------------------------------------------------------------
(* Bounds of the model.                                                    *)

\* longest input string given to strToFloatArr in isolation
MaxLen == 4
\* longest stats sequence given to setGaugeVec in isolation
MaxStats == 2
\* largest rebalance-success counter a node list reports
MaxCounter == 1
\* longest bucket list Buckets() returns
MaxBuckets == 2
\* longest node list Nodes() returns
MaxNodes == 2
\* longest server list Servers() returns
MaxServers == 2
\* a client call of the call chain takes 0..MaxLatency retry intervals
MaxLatency == 3

-----------------------------------------------------------------------------
(* Constants of the program, in seconds and attempts.                      *)

RunDeadline == 60
RunInterval == 20
RunAttempts == 8
GateDeadline == 600
GateInterval == 20
GateAttempts == 10

-----------------------------------------------------------------------------
(* float64 values and strconv.ParseFloat / fmt.Sprint.                     *)

RECURSIVE Norm(_, _)
\* the decimal m * 10^-e with trailing zero decimals removed
Norm(m, e) ==
    IF e > 0 /\ m % 10 = 0 THEN Norm(m \div 10, e - 1) ELSE [m |-> m, e |-> e]

Float(m, e) == Norm(m, e)

Zero == Float(0, 0)

DigitChars == <<"0", "1", "2", "3", "4", "5", "6", "7", "8", "9">>

IsDigit(c) == \E i \in 1..10 : DigitChars[i] = c

DigitVal(c) == (CHOOSE i \in 1..10 : DigitChars[i] = c) - 1

RECURSIVE DigitsVal(_)
\* the natural number a sequence of digits denotes
DigitsVal(ds) ==
    IF ds = <<>> THEN 0
    ELSE 10 * DigitsVal(SubSeq(ds, 1, Len(ds) - 1)) + DigitVal(ds[Len(ds)])

\* strconv.ParseFloat(tok, 64) on the characters the model's strings are made
\* of: an optional sign, digits with at most one decimal point, at least one
\* digit.  Any other token is a syntax error, and the value returned is 0.
ParseFloat(tok) ==
    LET signed == tok # <<>> /\ tok[1] \in {"-", "+"}
        body == IF signed THEN SubSeq(tok, 2, Len(tok)) ELSE tok
        dots == {i \in 1..Len(body) : body[i] = "."}
        digs == SelectSeq(body, IsDigit)
        wellFormed == /\ \A i \in 1..Len(body) : IsDigit(body[i]) \/ body[i] = "."
                      /\ Cardinality(dots) <= 1
                      /\ digs # <<>>
        places == IF dots = {} THEN 0 ELSE Len(body) - (CHOOSE i \in dots : TRUE)
        mag == DigitsVal(digs)
    IN  IF wellFormed
        THEN [err |-> FALSE,
              val |-> Float(IF signed /\ tok[1] = "-" THEN 0 - mag ELSE mag, places)]
        ELSE [err |-> TRUE, val |-> Zero]

RECURSIVE NatDigits(_)
\* the decimal digits of a natural number
NatDigits(n) ==
    IF n < 10 THEN <<DigitChars[n + 1]>>
    ELSE NatDigits(n \div 10) \o <<DigitChars[(n % 10) + 1]>>

RECURSIVE PadLeft(_, _)
PadLeft(ds, n) == IF Len(ds) >= n THEN ds ELSE PadLeft(<<"0">> \o ds, n)

\* fmt's %v of a float64 (the shortest decimal that reads back), for values
\* whose exponent keeps them in plain notation
FormatFloat(x) ==
    LET mag == IF x.m < 0 THEN 0 - x.m ELSE x.m
        ds == PadLeft(NatDigits(mag), x.e + 1)
        whole == SubSeq(ds, 1, Len(ds) - x.e)
        frac == SubSeq(ds, Len(ds) - x.e + 1, Len(ds))
    IN  (IF x.m < 0 THEN <<"-">> ELSE <<>>)
        \o whole \o (IF x.e > 0 THEN <<".">> \o frac ELSE <<>>)

RECURSIVE JoinFloats(_)
\* the elements of a slice as fmt prints them, separated by one space
JoinFloats(xs) ==
    IF xs = <<>> THEN <<>>
    ELSE IF Len(xs) = 1 THEN FormatFloat(xs[1])
    ELSE FormatFloat(xs[1]) \o <<" ">> \o JoinFloats(Tail(xs))

\* the values of the samples map (map[string]interface{})
Nil == [kind |-> "nil"]
Str(s) == [kind |-> "string", s |-> s]
List(xs) == [kind |-> "list", xs |-> xs]

\* samples[key]: a missing key reads as nil
Lookup(samples, key) == IF key \in DOMAIN samples THEN samples[key] ELSE Nil

SprintNilAsZero(v) ==
    CASE v.kind = "nil" -> <<"0">>
      [] v.kind = "string" -> v.s
      [] v.kind = "list" -> <<"[">> \o JoinFloats(v.xs) \o <<"]">>

\* fmt.Sprint(v) of one value of the samples map
Sprint(v) ==
    CASE v.kind = "nil" -> <<"<", "n", "i", "l", ">">>
      [] v.kind = "string" -> v.s
      [] v.kind = "list" -> <<"[">> \o JoinFloats(v.xs) \o <<"]">>

-----------------------------------------------------------------------------
(* Sample extractor and publish rule.                                      *)

RECURSIVE Split(_)
\* strings.Split(s, " "): the pieces between single spaces, empty ones kept
Split(s) ==
    LET sp == {i \in 1..Len(s) : s[i] = " "}
    IN  IF sp = {} THEN <<s>>
        ELSE LET i == CHOOSE k \in sp : \A j \in sp : k <= j
             IN  <<SubSeq(s, 1, i - 1)>> \o Split(SubSeq(s, i + 1, Len(s)))

RECURSIVE AppendParsedIgnoringErr(_, _)
AppendParsedIgnoringErr(floatsArr, toks) ==
    IF toks = <<>> THEN floatsArr
    ELSE AppendParsedIgnoringErr(Append(floatsArr, ParseFloat(toks[1]).val), Tail(toks))

RECURSIVE AppendParsed(_, _)
\* the `for _, f := range floatsStrArr` loop of strToFloatArr
AppendParsed(floatsArr, toks) ==
    IF toks = <<>> THEN floatsArr
    ELSE LET r == ParseFloat(toks[1])
         IN  AppendParsed(IF ~r.err THEN Append(floatsArr, r.val) ELSE floatsArr,
                          Tail(toks))

strToFloatArr(floatsStr) == AppendParsed(<<>>, Split(floatsStr))

CellLabelsSwapped(vec, bucket, nodeLabel, cluster) == <<vec, bucket, cluster, nodeLabel>>

\* a cell of the registry: one gauge vector at one label tuple
Cell(vec, bucket, nodeLabel, cluster) == <<vec, bucket, nodeLabel, cluster>>

GaugeWritesFirst(vec, stats, bucket, nodeLabel, cluster) ==
    IF Len(stats) > 0
    THEN <<[cell |-> Cell(vec, bucket, nodeLabel, cluster), val |-> stats[1]]>>
    ELSE <<>>

GaugeWritesZeroOnEmpty(vec, stats, bucket, nodeLabel, cluster) ==
    IF Len(stats) > 0
    THEN <<[cell |-> Cell(vec, bucket, nodeLabel, cluster), val |-> stats[Len(stats)]]>>
    ELSE <<[cell |-> Cell(vec, bucket, nodeLabel, cluster), val |-> Zero]>>

\* the registry writes one setGaugeVec call makes: with a non-empty stats,
\* WithLabelValues(labelValues...).Set(stats[len(stats)-1]); otherwise none
GaugeWrites(vec, stats, bucket, nodeLabel, cluster) ==
    IF Len(stats) > 0
    THEN <<[cell |-> Cell(vec, bucket, nodeLabel, cluster), val |-> stats[Len(stats)]]>>
    ELSE <<>>

RECURSIVE ApplyWritesEveryBucket(_, _)
ApplyWritesEveryBucket(g, ws) ==
    IF ws = <<>> THEN g
    ELSE ApplyWritesEveryBucket(
             [c \in {<<ws[1].cell[1], b, ws[1].cell[3], ws[1].cell[4]>> : b \in {"default", "beer"}}
                 |-> ws[1].val] @@ g,
             Tail(ws))

RECURSIVE ApplyWrites(_, _)
\* the registry g after the writes ws, in order: Set creates or overwrites a cell
ApplyWrites(g, ws) ==
    IF ws = <<>> THEN g
    ELSE ApplyWrites((ws[1].cell :> ws[1].val) @@ g, Tail(ws))

\* setGaugeVec on the registry g
setGaugeVec(g, vec, stats, bucket, nodeLabel, cluster) ==
    ApplyWrites(g, GaugeWrites(vec, stats, bucket, nodeLabel, cluster))

-----------------------------------------------------------------------------
(* Rebalance gate, node resolver and statistics URL lookup.  A client call *)
(* returns [err |-> TRUE] or [err |-> FALSE, val |-> the decoded reply].   *)

Failed == [err |-> TRUE]
Ok(v) == [err |-> FALSE, val |-> v]

getClusterBalancedStatusAnd(nodesRes) ==
    IF nodesRes.err THEN [rebalanced |-> FALSE, err |-> TRUE]
    ELSE [rebalanced |-> /\ nodesRes.val.Counters.RebalanceSuccess > 0
                         /\ nodesRes.val.Balanced
                         /\ nodesRes.val.RebalanceStatus = "none",
          err |-> FALSE]

\* getClusterBalancedStatus, given what c.Nodes() returned
getClusterBalancedStatus(nodesRes) ==
    IF nodesRes.err THEN [rebalanced |-> FALSE, err |-> TRUE]
    ELSE [rebalanced |-> \/ nodesRes.val.Counters.RebalanceSuccess > 0
                         \/ /\ nodesRes.val.Balanced
                            /\ nodesRes.val.RebalanceStatus = "none",
          err |-> FALSE]

getCurrentNodeLastHost(nodesRes) ==
    IF nodesRes.err THEN [host |-> "", err |-> TRUE]
    ELSE LET ns == nodesRes.val.Nodes
         IN  [host |-> IF ns = <<>> THEN "" ELSE ns[Len(ns)].Hostname, err |-> FALSE]

\* getCurrentNode, given what c.Nodes() returned: the first flagged node's
\* hostname; after the scan, "" with the nil err of the successful call
getCurrentNode(nodesRes) ==
    IF nodesRes.err THEN [host |-> "", err |-> TRUE]
    ELSE LET ns == nodesRes.val.Nodes
             flagged == {i \in 1..Len(ns) : ns[i].ThisNode}
         IN  IF flagged # {}
             THEN [host |-> ns[CHOOSE i \in flagged : \A j \in flagged : i <= j].Hostname,
                   err |-> FALSE]
             ELSE [host |-> "", err |-> FALSE]

RECURSIVE ScanServersFirstMatch(_, _, _)
ScanServersFirstMatch(correctURI, servers, nodeName) ==
    IF servers = <<>> THEN correctURI
    ELSE IF servers[1].Hostname = nodeName
         THEN (IF "uri" \in DOMAIN servers[1].Stats THEN servers[1].Stats["uri"] ELSE "")
         ELSE ScanServersFirstMatch(correctURI, Tail(servers), nodeName)

RECURSIVE ScanServersAnyHost(_, _, _)
ScanServersAnyHost(correctURI, servers, nodeName) ==
    IF servers = <<>> THEN correctURI
    ELSE ScanServersAnyHost(IF "uri" \in DOMAIN servers[1].Stats
                            THEN servers[1].Stats["uri"] ELSE "",
                            Tail(servers), nodeName)

RECURSIVE ScanServers(_, _, _)
\* the `for _, server := range servers.Servers` loop: every match overwrites
\* correctURI; a Stats map without "uri" reads as ""
ScanServers(correctURI, servers, nodeName) ==
    IF servers = <<>> THEN correctURI
    ELSE ScanServers(IF servers[1].Hostname = nodeName
                     THEN (IF "uri" \in DOMAIN servers[1].Stats
                           THEN servers[1].Stats["uri"] ELSE "")
                     ELSE correctURI,
                     Tail(servers), nodeName)

\* getSpecificNodeBucketStatsURL, given what client.Servers(bucket) returned;
\* after a failed call servers is the zero value, with no Servers
getSpecificNodeBucketStatsURL(serversRes, nodeName) ==
    ScanServers("", IF serversRes.err THEN <<>> ELSE serversRes.val, nodeName)

-----------------------------------------------------------------------------
(* The values the collaborators can return, within the bounds.             *)

\* all sequences over S of length at most n
SeqsUpTo(S, n) == UNION {[1..k -> S] : k \in 0..n}

Hostnames == {"node1", "node2"}
BucketNames == {"default", "beer"}
ClusterNames == {"prod"}
Uris == {"uri1", "uri2"}

EmptyMap == [k \in {} |-> Nil]
EmptyRegistry == [c \in {} |-> Zero]

\* c.Nodes(): the node list and the cluster's rebalance state
NodeLists == SeqsUpTo([Hostname : Hostnames, ThisNode : BOOLEAN], MaxNodes)
NodesReplies(lists, counters, flags, statuses) ==
    {Failed} \cup
    {Ok([Nodes |-> ns, Counters |-> [RebalanceSuccess |-> c], Balanced |-> b,
         RebalanceStatus |-> st]) :
        ns \in lists, c \in counters, b \in flags, st \in statuses}
NodesResults == NodesReplies(NodeLists, 0..MaxCounter, BOOLEAN, {"none", "running"})
\* the replies getCurrentNode tells apart, and those getClusterBalancedStatus does
ResolveReplies == NodesReplies(NodeLists, {0}, {TRUE}, {"none"})
GateReplies == NodesReplies({<<>>}, 0..MaxCounter, BOOLEAN, {"none", "running"})

\* client.ClusterName()
ClusterNameResults == {Failed} \cup {Ok(c) : c \in ClusterNames}

\* client.Buckets(): bucket names are unique within a cluster
BucketsResults ==
    {Failed} \cup
    {Ok(bs) : bs \in {l \in SeqsUpTo(BucketNames, MaxBuckets) :
                        \A i, j \in 1..Len(l) : l[i] = l[j] => i = j}}

\* client.Servers(bucket): each server has a hostname and a map of named URIs
ServersReplies(uris) ==
    {Failed} \cup
    {Ok(l) : l \in SeqsUpTo([Hostname : Hostnames,
                             Stats : {EmptyMap} \cup {[k \in {"uri"} |-> u] : u \in uris}],
                            MaxServers)}
ServersResults == ServersReplies(Uris)
\* in the loop only the empty URL is told apart from the others
LoopServersReplies == ServersReplies({"uri1"})

\* one sample field of a stats payload: a series string, or a list of numbers
Series10x20x30 == Str(<<"1", "0", " ", "2", "0", " ", "3", "0">>)
Series2p5xBad == Str(<<"2", ".", "5", " ", "x">>)
SeriesEmpty == Str(<<>>)
SeriesBad == Str(<<"x", " ", "-">>)
List10x20x30 == List(<<Float(10, 0), Float(20, 0), Float(30, 0)>>)

SampleKeys == {"hibernated_requests", "hibernated_waked", "curr_items"}
SampleValues == {Series10x20x30, Series2p5xBad, List10x20x30}

\* bucketStats.Op.Samples of a successful GET
Payloads == UNION {[K -> SampleValues] : K \in SUBSET SampleKeys}

\* the time a client call of the call chain takes
Latencies == {k * GateInterval : k \in 0..MaxLatency}

-----------------------------------------------------------------------------
(* The functions applied in isolation: one application, to any input      *)
(* within the bounds.                                                      *)

FnChars == {"1", "5", ".", "-", " ", "x"}
FnStrings == SeqsUpTo(FnChars, MaxLen)
FnValues == {Float(5, 0), Float(7, 0), Float(25, 1)}
FnStats == SeqsUpTo(FnValues, MaxStats)
FnCells == {Cell("CurrItems", "default", "node1", "prod"),
            Cell("CurrItems", "beer", "node1", "prod")}
FnRegistries == UNION {[K -> FnValues] : K \in SUBSET FnCells}
FnSamples == SampleValues \cup {SeriesEmpty, SeriesBad, Nil}

NoCall == [fn |-> "none"]

CallStrToFloatArr ==
    /\ fnCall = NoCall
    /\ \E s \in FnStrings :
          /\ fnCall' = [fn |-> "strToFloatArr", floatsStr |-> s]
          /\ fnRet' = strToFloatArr(s)
    /\ UNCHANGED <<runVars, loopVars>>

CallSetGaugeVec ==
    /\ fnCall = NoCall
    /\ \E g \in FnRegistries, stats \in FnStats, b \in BucketNames :
          /\ fnCall' = [fn |-> "setGaugeVec", g |-> g, vec |-> "CurrItems", stats |-> stats,
                        bucket |-> b, node |-> "node1", cluster |-> "prod"]
          /\ fnRet' = setGaugeVec(g, "CurrItems", stats, b, "node1", "prod")
    /\ UNCHANGED <<runVars, loopVars>>

\* one line of the loop body: setGaugeVec(*V, strToFloatArr(fmt.Sprint(samples[k])), ...)
CallPublish ==
    /\ fnCall = NoCall
    /\ \E g \in FnRegistries, v \in FnSamples, b \in BucketNames :
          /\ fnCall' = [fn |-> "publish", g |-> g, vec |-> "CurrItems", sample |-> v,
                        bucket |-> b, node |-> "node1", cluster |-> "prod"]
          /\ fnRet' = setGaugeVec(g, "CurrItems", strToFloatArr(Sprint(v)), b, "node1", "prod")
    /\ UNCHANGED <<runVars, loopVars>>

CallGetClusterBalancedStatus ==
    /\ fnCall = NoCall
    /\ \E r \in NodesResults :
          /\ fnCall' = [fn |-> "getClusterBalancedStatus", nodes |-> r]
          /\ fnRet' = getClusterBalancedStatus(r)
    /\ UNCHANGED <<runVars, loopVars>>

CallGetCurrentNode ==
    /\ fnCall = NoCall
    /\ \E r \in NodesResults :
          /\ fnCall' = [fn |-> "getCurrentNode", nodes |-> r]
          /\ fnRet' = getCurrentNode(r)
    /\ UNCHANGED <<runVars, loopVars>>

CallGetSpecificNodeBucketStatsURL ==
    /\ fnCall = NoCall
    /\ \E r \in ServersResults, n \in Hostnames \cup {""} :
          /\ fnCall' = [fn |-> "getSpecificNodeBucketStatsURL", servers |-> r, node |-> n]
          /\ fnRet' = getSpecificNodeBucketStatsURL(r, n)
    /\ UNCHANGED <<runVars, loopVars>>

-----------------------------------------------------------------------------
(* Initial state: RunPerNodeBucketStatsCollection has been entered and its *)
(* 60-second context created; no goroutine runs; the registry is empty.    *)

NoFetch == [bucket |-> "", url |-> "", err |-> FALSE, samples |-> EmptyMap, writes |-> <<>>]

Init ==
    /\ fnCall = NoCall
    /\ fnRet = NoCall
    /\ pc = "run_retry"
    /\ runLeft = RunDeadline
    /\ gateLeft = 0
    /\ runTries = 0
    /\ gateTries = 0
    /\ rebalanced = FALSE
    /\ gateErr = FALSE
    /\ node = ""
    /\ clusterName = ""
    /\ logged = {}
    /\ spawned = 0
    /\ loopPc = "idle"
    /\ buckets = Ok(<<>>)
    /\ bi = 1
    /\ fetch = NoFetch
    /\ gauges = EmptyRegistry

-----------------------------------------------------------------------------
(* The Retry helper (pkg/util), as the call sites use it: the function is  *)
(* called until it reports success, at most maxAttempts times and only     *)
(* while the context's deadline has not passed, with a fixed wait after    *)
(* every failed attempt.                                                   *)

RetryMayAttemptPastCount(tries, maxAttempts, left) == left > 0

RetryMayAttemptPastDeadline(tries, maxAttempts, left) == tries < maxAttempts

\* whether Retry makes one more attempt
RetryMayAttempt(tries, maxAttempts, left) == tries < maxAttempts /\ left > 0

RetryGivesUpOnErr(err) == err

\* whether Retry gives up at once when the function returns false with this
\* error: it does not, it waits and calls the function again
RetryGivesUpOn(err) == FALSE

\* a context's remaining time after t seconds
TimeLeft(left, t) == IF left > t THEN left - t ELSE 0

-----------------------------------------------------------------------------
(* The loop body's table of setGaugeVec calls: the rows of lines 2281,     *)
(* 2282 and 2300, in the order of the source.  Every other row has the     *)
(* form of the row of line 2300, with a gauge and a field of its own.      *)

Dispatch ==
    <<[vec |-> "HibernatedRequests", key |-> "hibernated_requests"],
      [vec |-> "HibernatedRequests", key |-> "hibernated_waked"],
      [vec |-> "CurrItems", key |-> "curr_items"]>>

\* the gauge vectors declared for these fields, each with its metric name
GaugeVecs ==
    {[vec |-> "HibernatedRequests", name |-> "hibernated_requests"],
     [vec |-> "HibernatedWaked", name |-> "hibernated_waked"],
     [vec |-> "CurrItems", name |-> "curr_items"]}

\* strToFloatArr(fmt.Sprint(v)) for every value v a samples map can hold
Extracted == [v \in SampleValues \cup {Nil} |-> strToFloatArr(Sprint(v))]

RECURSIVE BodyWrites(_, _, _, _, _)
\* the registry writes of the loop body's setGaugeVec calls from row i on,
\* in the order of the calls
BodyWrites(i, samples, bucket, nodeLabel, cluster) ==
    IF i > Len(Dispatch) THEN <<>>
    ELSE GaugeWrites(Dispatch[i].vec, Extracted[Lookup(samples, Dispatch[i].key)],
                     bucket, nodeLabel, cluster)
         \o BodyWrites(i + 1, samples, bucket, nodeLabel, cluster)

GetResultsNoReturnOnEmpty(url) == IF url = "" THEN {} ELSE {Failed} \cup {Ok(p) : p \in Payloads}

\* client.Get(url, &bucketStats): the GET of the empty URL fails; any other
\* GET fails or decodes a payload
GetResults(url) == IF url = "" THEN {Failed} ELSE {Failed} \cup {Ok(p) : p \in Payloads}

-----------------------------------------------------------------------------
(* RunPerNodeBucketStatsCollection and collectPerNodeBucketMetrics.        *)

RunCallbackResultFromGate == [ok |-> "gate_failed" \notin logged']

RunCallbackResultRetry == [ok |-> FALSE]

\* what the node-resolution callback returns once collectPerNodeBucketMetrics
\* has returned: `return true, nil`
RunCallbackResult == [ok |-> TRUE]

CollectKeepsGating(t) ==
    /\ pc' = "gate_retry"
    /\ gateErr' = FALSE
    /\ gateLeft' = TimeLeft(gateLeft, t + GateInterval)
    /\ runLeft' = TimeLeft(runLeft, t + GateInterval)
    /\ UNCHANGED <<gateTries, runTries>>

CollectNeverReturns(t) == FALSE

\* collectPerNodeBucketMetrics returns after t more seconds: its context is
\* cancelled, the callback returns, and Retry stops on success or waits and
\* goes on
CollectReturns(t) ==
    /\ gateLeft' = 0
    /\ gateTries' = 0
    /\ gateErr' = FALSE
    /\ IF RunCallbackResult.ok
       THEN pc' = "done" /\ runLeft' = 0 /\ runTries' = 0
       ELSE pc' = "run_retry" /\ runLeft' = TimeLeft(runLeft, t + RunInterval)
            /\ runTries' = runTries

\* one attempt of the node-resolution Retry: getCurrentNode, and on success
\* the call of collectPerNodeBucketMetrics, which creates its 600-second
\* context; on an error the callback returns false with the error
RunAttempt ==
    /\ pc = "run_retry"
    /\ RetryMayAttempt(runTries, RunAttempts, runLeft)
    /\ \E r \in ResolveReplies, d \in Latencies :
          LET cur == getCurrentNode(r)
          IN  IF cur.err
              THEN IF RetryGivesUpOn(cur.err)
                   THEN /\ logged' = logged \cup {"run_failed"}
                        /\ pc' = "done"
                        /\ runLeft' = 0
                        /\ runTries' = 0
                        /\ UNCHANGED <<gateLeft, node>>
                   ELSE /\ runTries' = runTries + 1
                        /\ runLeft' = TimeLeft(runLeft, d + RunInterval)
                        /\ UNCHANGED <<pc, gateLeft, node, logged>>
              ELSE /\ runTries' = runTries + 1
                   /\ runLeft' = TimeLeft(runLeft, d)
                   /\ node' = cur.host
                   /\ gateLeft' = GateDeadline
                   /\ pc' = "collect"
                   /\ UNCHANGED logged
    /\ UNCHANGED <<gateTries, rebalanced, gateErr, clusterName, spawned, fnVars, loopVars>>

\* the node-resolution Retry gives up: the failure is printed, the function returns
RunExhausted ==
    /\ pc = "run_retry"
    /\ ~RetryMayAttempt(runTries, RunAttempts, runLeft)
    /\ logged' = logged \cup {"run_failed"}
    /\ pc' = "done"
    /\ runLeft' = 0
    /\ runTries' = 0
    /\ UNCHANGED <<gateLeft, gateTries, rebalanced, gateErr, node, clusterName, spawned, fnVars, loopVars>>

\* client.ClusterName(): on an error it is logged and
\* collectPerNodeBucketMetrics returns; otherwise the gate's Retry starts
CollectStart ==
    /\ pc = "collect"
    /\ \E r \in ClusterNameResults, d \in Latencies :
          IF r.err
          THEN /\ logged' = logged \cup {"cluster_name_error"}
               /\ CollectReturns(d)
               /\ UNCHANGED clusterName
          ELSE /\ clusterName' = r.val
               /\ pc' = "gate_retry"
               /\ gateTries' = 0
               /\ gateLeft' = TimeLeft(gateLeft, d)
               /\ runLeft' = TimeLeft(runLeft, d)
               /\ UNCHANGED <<runTries, logged, gateErr>>
    /\ UNCHANGED <<rebalanced, node, spawned, fnVars, loopVars>>

GateCallbackSpawnFirst(isRebalanced) == [spawn |-> TRUE, ok |-> isRebalanced]

GateCallbackInverted(isRebalanced) == [spawn |-> ~isRebalanced, ok |-> ~isRebalanced]

\* the gate callback after getClusterBalancedStatus: `if !rebalanced` returns
\* false; the else branch starts the goroutine, logs it and returns true
GateCallback(isRebalanced) == [spawn |-> isRebalanced, ok |-> isRebalanced]

\* one attempt of the gate's Retry.  When the callback returns false Retry
\* waits; when it returns true Retry and collectPerNodeBucketMetrics return.
GateAttempt ==
    /\ pc = "gate_retry"
    /\ RetryMayAttempt(gateTries, GateAttempts, gateLeft)
    /\ \E r \in GateReplies, d \in Latencies :
          LET st == getClusterBalancedStatus(r)
              cb == GateCallback(st.rebalanced)
              givesUp == ~cb.ok /\ RetryGivesUpOn(st.err)
          IN  /\ rebalanced' = st.rebalanced
              /\ IF cb.spawn
                 THEN /\ spawned' = spawned + 1
                      /\ loopPc' = "list"
                 ELSE UNCHANGED <<spawned, loopPc>>
              /\ logged' = logged \cup (IF cb.spawn THEN {"loop_started"} ELSE {})
                                  \cup (IF givesUp THEN {"gate_failed"} ELSE {})
              /\ IF cb.ok \/ givesUp
                 THEN CollectReturns(d)
                 ELSE /\ gateTries' = gateTries + 1
                      /\ gateErr' = st.err
                      /\ gateLeft' = TimeLeft(gateLeft, d + GateInterval)
                      /\ runLeft' = TimeLeft(runLeft, d + GateInterval)
                      /\ UNCHANGED <<pc, runTries>>
    /\ UNCHANGED <<node, clusterName, buckets, bi, fetch, gauges, fnVars>>

GateExhaustedByRunDeadline ==
    /\ pc = "gate_retry"
    /\ ~RetryMayAttempt(gateTries, GateAttempts, gateLeft) \/ runLeft = 0
    /\ logged' = logged \cup {"gate_failed"}
    /\ CollectReturns(0)
    /\ UNCHANGED <<rebalanced, node, clusterName, spawned, fnVars, loopVars>>

\* the gate's Retry gives up: collectPerNodeBucketMetrics logs the failure
\* and returns
GateExhausted ==
    /\ pc = "gate_retry"
    /\ ~RetryMayAttempt(gateTries, GateAttempts, gateLeft)
    /\ logged' = logged \cup {"gate_failed"}
    /\ CollectReturns(0)
    /\ UNCHANGED <<rebalanced, node, clusterName, spawned, fnVars, loopVars>>

-----------------------------------------------------------------------------
(* The Collection Loop goroutine.                                          *)

\* client.Buckets() at the start of a cycle; after an error the range runs
\* over no bucket
ListBuckets ==
    /\ loopPc = "list"
    /\ \E r \in BucketsResults : buckets' = r
    /\ bi' = 1
    /\ fetch' = NoFetch
    /\ loopPc' = "range"
    /\ UNCHANGED <<gauges, runVars, fnVars>>

BucketListReversed ==
    IF buckets.err THEN <<>>
    ELSE [i \in 1..Len(buckets.val) |-> buckets.val[Len(buckets.val) + 1 - i]]

BucketListDefaultOnErr == IF buckets.err THEN <<"default">> ELSE buckets.val

BucketListAllKnown == <<"default", "beer">>

\* the bucket list the range statement iterates over
BucketList == IF buckets.err THEN <<>> ELSE buckets.val

\* getSpecificNodeBucketStatsURL for the next bucket of the range
ResolveURL ==
    /\ loopPc = "range"
    /\ bi <= Len(BucketList)
    /\ \E r \in LoopServersReplies :
          fetch' = [bucket |-> BucketList[bi],
                    url |-> getSpecificNodeBucketStatsURL(r, node),
                    err |-> FALSE, samples |-> EmptyMap, writes |-> <<>>]
    /\ loopPc' = "get"
    /\ UNCHANGED <<buckets, bi, gauges, runVars, fnVars>>

\* the rest of the loop body for that bucket, given what the GET of
\* getPerNodeBucketStats returned (after an error the samples map is nil):
\* every setGaugeVec call
CollectBucketGiven(r) ==
    /\ loopPc = "get"
    /\ r \in GetResults(fetch.url)
    /\ LET samples == IF r.err THEN EmptyMap ELSE r.val
           ws == BodyWrites(1, samples, fetch.bucket, node, clusterName)
       IN  /\ fetch' = [fetch EXCEPT !.err = r.err, !.samples = samples, !.writes = ws]
           /\ gauges' = ApplyWrites(gauges, ws)
    /\ bi' = bi + 1
    /\ loopPc' = "range"
    /\ UNCHANGED <<buckets, runVars, fnVars>>

\* the GET and the loop body for the next bucket
CollectBucket == \E r \in GetResults(fetch.url) : CollectBucketGiven(r)

\* the range is over: time.Sleep begins; the cycle's variables are dead
Sleep ==
    /\ loopPc = "range"
    /\ bi > Len(BucketList)
    /\ loopPc' = "sleep"
    /\ buckets' = Ok(<<>>)
    /\ bi' = 1
    /\ fetch' = NoFetch
    /\ UNCHANGED <<gauges, runVars, fnVars>>

WakeResetting ==
    /\ loopPc = "sleep"
    /\ loopPc' = "list"
    /\ gauges' = EmptyRegistry
    /\ UNCHANGED <<buckets, bi, fetch, runVars, fnVars>>

\* time.Sleep returns and the next cycle begins
Wake ==
    /\ loopPc = "sleep"
    /\ loopPc' = "list"
    /\ UNCHANGED <<buckets, bi, fetch, gauges, runVars, fnVars>>

Next ==
    \/ RunAttempt
    \/ RunExhausted
    \/ CollectStart
    \/ GateAttempt
    \/ GateExhausted
    \/ ListBuckets
    \/ ResolveURL
    \/ CollectBucket
    \/ Sleep
    \/ Wake

Spec == Init /\ [][Next]_vars

\* the goroutine is scheduled, its client calls return and time.Sleep ends.
\* Every CollectBucket step leaves the position "get", so fairness of the
\* step of a failing GET is all that progress needs, and it is implied by
\* fairness of CollectBucket.
LoopFairness ==
    WF_vars(ListBuckets \/ ResolveURL \/ CollectBucketGiven(Failed) \/ Sleep \/ Wake)

\* the calling flow runs: its client calls return and Retry's waits end
RunFairness ==
    WF_vars(RunAttempt \/ RunExhausted \/ CollectStart \/ GateAttempt \/ GateExhausted)

SpecLive == Spec /\ LoopFairness /\ RunFairness

\* getPerNodeBucketStats for one bucket, and the loop body's setGaugeVec calls
\* on the samples it returns
CallGetPerNodeBucketStats ==
    /\ fnCall = NoCall
    /\ \E sv \in ServersResults, n \in Hostnames \cup {""}, b \in BucketNames :
          LET url == getSpecificNodeBucketStatsURL(sv, n)
          IN  \E r \in GetResults(url) :
                 LET samples == IF r.err THEN EmptyMap ELSE r.val
                 IN  /\ fnCall' = [fn |-> "getPerNodeBucketStats", servers |-> sv,
                                   bucket |-> b, node |-> n, cluster |-> "prod"]
                     /\ fnRet' = [url |-> url, err |-> r.err, samples |-> samples,
                                  writes |-> BodyWrites(1, samples, b, n, "prod")]
    /\ UNCHANGED <<runVars, loopVars>>

NextFn ==
    \/ CallGetPerNodeBucketStats
    \/ CallStrToFloatArr
    \/ CallSetGaugeVec
    \/ CallPublish
    \/ CallGetClusterBalancedStatus
    \/ CallGetCurrentNode
    \/ CallGetSpecificNodeBucketStatsURL

\* the functions of the file, each applied to every input within the bounds
SpecFn == Init /\ [][NextFn]_vars

-----------------------------------------------------------------------------
(* Properties of the functions applied in isolation (SpecFn).              *)

SpacesOf(s) == {i \in 1..Len(s) : s[i] = " "}

\* the k-th smallest element of a set of integers
KthSmallest(S, k) == CHOOSE x \in S : Cardinality({y \in S : y <= x}) = k

\* the k-th piece of s between single spaces, by position
TokenAt(s, k) ==
    LET edges == {0} \cup SpacesOf(s) \cup {Len(s) + 1}
    IN  SubSeq(s, KthSmallest(edges, k) + 1, KthSmallest(edges, k + 1) - 1)

\* the pieces of s that read as a float
GoodTokens(s) ==
    {k \in 1..(Cardinality(SpacesOf(s)) + 1) : ~ParseFloat(TokenAt(s, k)).err}

\* C1: strToFloatArr(s) is exactly the values of the pieces of s between single
\* spaces that parse as floats, in their order in s; every other piece (malformed,
\* or empty because of a leading, trailing or doubled space) is dropped, and a
\* string with no parseable piece, "" included, gives the empty sequence.
C1_ExtractSeries ==
    fnCall.fn = "strToFloatArr" =>
        LET s == fnCall.floatsStr
            good == GoodTokens(s)
        IN  /\ Len(fnRet) = Cardinality(good)
            /\ \A k \in good :
                  fnRet[Cardinality({j \in good : j <= k})] = ParseFloat(TokenAt(s, k)).val
            /\ (good = {} => fnRet = <<>>)

\* an input with an empty piece and a malformed piece around two numbers
C1_Witness ==
    /\ fnCall.fn = "strToFloatArr"
    /\ fnCall.floatsStr = <<" ", "1", " ", "5">>
    /\ fnRet = <<Float(1, 0), Float(5, 0)>>

C1_WitnessMalformed ==
    /\ fnCall.fn = "strToFloatArr"
    /\ Len(fnRet) = 1
    /\ \E k \in 1..(Cardinality(SpacesOf(fnCall.floatsStr)) + 1) :
          /\ k \notin GoodTokens(fnCall.floatsStr)
          /\ TokenAt(fnCall.floatsStr, k) # <<>>

FnCellOf(call) == Cell(call.vec, call.bucket, call.node, call.cluster)

\* C2: given a non-empty stats sequence, setGaugeVec leaves the cell at the given
\* labels holding the last element of the sequence, whatever it held before, and
\* changes no other cell.
C2_PublishLast ==
    (fnCall.fn = "setGaugeVec" /\ Len(fnCall.stats) > 0) =>
        /\ DOMAIN fnRet = DOMAIN fnCall.g \cup {FnCellOf(fnCall)}
        /\ fnRet[FnCellOf(fnCall)] = fnCall.stats[Len(fnCall.stats)]
        /\ \A c \in DOMAIN fnCall.g \ {FnCellOf(fnCall)} : fnRet[c] = fnCall.g[c]

\* a cell holding one value is overwritten by the last of two other values
C2_Witness ==
    /\ fnCall.fn = "setGaugeVec"
    /\ Len(fnCall.stats) = 2
    /\ fnCall.stats[1] # fnCall.stats[2]
    /\ FnCellOf(fnCall) \in DOMAIN fnCall.g
    /\ fnCall.g[FnCellOf(fnCall)] \notin {fnCall.stats[1], fnCall.stats[2]}
    /\ fnRet[FnCellOf(fnCall)] = fnCall.stats[2]

\* a sample field with no parseable number: missing, or a string no piece of
\* which reads as a float
NoNumber(v) ==
    \/ v.kind = "nil"
    \/ v.kind = "string" /\ GoodTokens(v.s) = {}

\* C3: publishing a field whose series has no parseable number (the field is
\* missing, empty or entirely malformed) writes nothing: the registry is the one
\* before the call, so the cell keeps its prior value and an unset cell stays unset.
C3_EmptyNoWrite ==
    (fnCall.fn = "publish" /\ NoNumber(fnCall.sample)) => fnRet = fnCall.g

\* a set cell survives the publication of an entirely malformed series
C3_Witness ==
    /\ fnCall.fn = "publish"
    /\ fnCall.sample = SeriesBad
    /\ FnCellOf(fnCall) \in DOMAIN fnCall.g
    /\ fnRet[FnCellOf(fnCall)] = fnCall.g[FnCellOf(fnCall)]

C3_WitnessUnset ==
    /\ fnCall.fn = "publish"
    /\ fnCall.sample = Nil
    /\ FnCellOf(fnCall) \notin DOMAIN fnRet

\* C4: when Nodes() succeeds, getClusterBalancedStatus reports no error, and
\* reports balanced when the rebalance-success counter is positive, or when the
\* balanced flag is set and the rebalance status is "none"; in every other case
\* it reports unbalanced.
C4_IsBalanced ==
    (fnCall.fn = "getClusterBalancedStatus" /\ ~fnCall.nodes.err) =>
        LET n == fnCall.nodes.val
        IN  /\ ~fnRet.err
            /\ n.Counters.RebalanceSuccess > 0 => fnRet.rebalanced
            /\ (n.Balanced /\ n.RebalanceStatus = "none") => fnRet.rebalanced
            /\ (n.Counters.RebalanceSuccess = 0 /\ ~n.Balanced) => ~fnRet.rebalanced
            /\ (n.Counters.RebalanceSuccess = 0 /\ n.RebalanceStatus # "none")
                  => ~fnRet.rebalanced

\* success 0, balanced true, status "running" gives false
C4_Witness ==
    /\ fnCall.fn = "getClusterBalancedStatus"
    /\ ~fnCall.nodes.err
    /\ fnCall.nodes.val.Counters.RebalanceSuccess = 0
    /\ fnCall.nodes.val.Balanced
    /\ fnCall.nodes.val.RebalanceStatus = "running"
    /\ ~fnRet.rebalanced

\* success positive, balanced false, status "running" gives true
C4_WitnessCounter ==
    /\ fnCall.fn = "getClusterBalancedStatus"
    /\ ~fnCall.nodes.err
    /\ fnCall.nodes.val.Counters.RebalanceSuccess > 0
    /\ ~fnCall.nodes.val.Balanced
    /\ fnCall.nodes.val.RebalanceStatus = "running"
    /\ fnRet.rebalanced

\* C5: when Nodes() succeeds, getCurrentNode returns no error; it returns the
\* hostname of the node flagged as this node when exactly one node is flagged,
\* and the empty string when no node is flagged.
C5_ResolveNode ==
    (fnCall.fn = "getCurrentNode" /\ ~fnCall.nodes.err) =>
        LET ns == fnCall.nodes.val.Nodes
            flagged == {i \in 1..Len(ns) : ns[i].ThisNode}
        IN  /\ ~fnRet.err
            /\ \A i \in flagged : flagged = {i} => fnRet.host = ns[i].Hostname
            /\ flagged = {} => fnRet.host = ""

\* nodes [{node1, false}, {node2, true}] resolve to "node2"
C5_Witness ==
    /\ fnCall.fn = "getCurrentNode"
    /\ ~fnCall.nodes.err
    /\ fnCall.nodes.val.Nodes = <<[Hostname |-> "node1", ThisNode |-> FALSE],
                                  [Hostname |-> "node2", ThisNode |-> TRUE]>>
    /\ fnRet = [host |-> "node2", err |-> FALSE]

\* a non-empty list with no flagged node resolves to "" without an error
C5_WitnessNone ==
    /\ fnCall.fn = "getCurrentNode"
    /\ ~fnCall.nodes.err
    /\ Len(fnCall.nodes.val.Nodes) = 2
    /\ \A i \in 1..2 : ~fnCall.nodes.val.Nodes[i].ThisNode
    /\ fnRet = [host |-> "", err |-> FALSE]

-----------------------------------------------------------------------------
(* Properties of the call chain and the Collection Loop (Spec).            *)

\* a sample series string with at least one number, and its newest number
HasNumber(v) == v.kind = "string" /\ GoodTokens(v.s) # {}
LastNumber(v) ==
    ParseFloat(TokenAt(v.s, CHOOSE k \in GoodTokens(v.s) :
                               \A j \in GoodTokens(v.s) : j <= k)).val

\* the loop body has just finished a bucket whose stats GET succeeded
BodyDone == loopPc = "range" /\ fetch.bucket # "" /\ ~fetch.err

\* the cell of a declared gauge for the bucket of the loop body
BodyCell(gv) == Cell(gv.vec, fetch.bucket, node, clusterName)

\* C6: once the loop body has processed a bucket whose stats GET succeeded, the
\* gauge of every field with a non-empty sample series holds, at the labels
\* (bucket, node, cluster name), the last sample of that series.
C6_LastSamplePublished ==
    BodyDone =>
        \A gv \in GaugeVecs :
            (gv.name \in DOMAIN fetch.samples /\ HasNumber(fetch.samples[gv.name])) =>
                /\ BodyCell(gv) \in DOMAIN gauges
                /\ gauges[BodyCell(gv)] = LastNumber(fetch.samples[gv.name])

\* the same for the curr_items field alone, which the code does satisfy
CurrItemsLastSamplePublished ==
    (BodyDone /\ "curr_items" \in DOMAIN fetch.samples
              /\ HasNumber(fetch.samples["curr_items"])) =>
        LET c == Cell("CurrItems", fetch.bucket, node, clusterName)
        IN  c \in DOMAIN gauges /\ gauges[c] = LastNumber(fetch.samples["curr_items"])

\* C7: when every tracked field of a payload has a sample, the loop body writes
\* each declared gauge exactly once, with the last sample of the field the gauge
\* is declared for; no gauge receives two fields.
C7_OwnGauge ==
    (BodyDone /\ \A k \in SampleKeys :
                    k \in DOMAIN fetch.samples /\ HasNumber(fetch.samples[k])) =>
        \A gv \in GaugeVecs :
            LET ws == {i \in 1..Len(fetch.writes) : fetch.writes[i].cell = BodyCell(gv)}
            IN  /\ Cardinality(ws) = 1
                /\ \A i \in ws : fetch.writes[i].val = LastNumber(fetch.samples[gv.name])

\* C8: the goroutine has been started, and a gauge cell has been written, only
\* if the gate's last getClusterBalancedStatus reported balanced.
C8_GateBeforeLoop ==
    (spawned > 0 \/ loopPc # "idle" \/ DOMAIN gauges # {}) => rebalanced

\* a gauge has been written, after a gate check that reported balanced
C8_Witness == DOMAIN gauges # {} /\ rebalanced /\ spawned = 1

\* the gate's Retry has used up its attempts or its deadline
GateBudgetSpent == gateTries = GateAttempts \/ gateLeft = 0

\* C9: when the gate's Retry has used up its 10 attempts or its 600 seconds
\* without a balanced reply, no goroutine has been started and no gauge written;
\* and once collectPerNodeBucketMetrics has logged that failure, the call chain
\* has returned, still with no goroutine and no gauge.
C9_GateExhausted ==
    /\ (pc = "gate_retry" /\ GateBudgetSpent) =>
          (spawned = 0 /\ loopPc = "idle" /\ DOMAIN gauges = {})
    /\ "gate_failed" \in logged =>
          (pc = "done" /\ spawned = 0 /\ loopPc = "idle" /\ DOMAIN gauges = {})

\* the run has ended with the gate's failure logged
C9_Witness == pc = "done" /\ "gate_failed" \in logged /\ spawned = 0 /\ ~rebalanced

\* the gate's attempts are used up / its deadline has passed first
C9_WitnessAttempts == pc = "gate_retry" /\ gateTries = GateAttempts /\ gateLeft > 0
C9_WitnessDeadline == pc = "gate_retry" /\ gateTries < GateAttempts /\ gateLeft = 0

\* C10: at most one goroutine is ever started, and when one has been started the
\* gate has succeeded: the call chain has returned and nothing retries.
C10_SingleLoop ==
    /\ spawned <= 1
    /\ spawned = 1 => (pc = "done" /\ "loop_started" \in logged /\ "gate_failed" \notin logged)
    /\ spawned = 0 => loopPc = "idle"

\* the one goroutine has completed a cycle that wrote gauges
C10_Witness == spawned = 1 /\ loopPc = "sleep" /\ DOMAIN gauges # {} /\ pc = "done"

-----------------------------------------------------------------------------
(* Properties of the two Retry rounds (Spec).                              *)

\* the line the step logs
NewlyLogged(line) == line \notin logged /\ line \in logged'

\* C11: a Retry whose function fails every time calls it exactly maxAttempts
\* times before it surfaces the failure, unless its deadline passes first, and
\* never more: at both call sites the attempts made never exceed the count (8 for
\* node resolution, 10 for the gate), and the failure is surfaced only with the
\* count reached or the deadline passed.
C11_RetryBudget ==
    /\ [](runTries <= RunAttempts /\ gateTries <= GateAttempts)
    /\ [][NewlyLogged("gate_failed") => (gateTries = GateAttempts \/ gateLeft = 0)]_vars
    /\ [][NewlyLogged("run_failed") => (runTries = RunAttempts \/ runLeft = 0)]_vars

\* the gate's function has failed exactly 10 times within the deadline, and the
\* failure is about to be surfaced
C11_Witness ==
    /\ pc = "gate_retry"
    /\ gateTries = GateAttempts
    /\ gateLeft > 0
    /\ ~rebalanced
    /\ "gate_failed" \notin logged

\* node resolution has failed until its 60 seconds were over, before 8 attempts
C11_WitnessDeadline ==
    /\ pc = "run_retry"
    /\ runTries \in 1..(RunAttempts - 1)
    /\ runLeft = 0
    /\ "run_failed" \notin logged

\* the step is an attempt of the node-resolution Retry / of the gate's Retry
IsRunAttempt == pc = "run_retry" /\ ~NewlyLogged("run_failed")
IsGateAttempt == pc = "gate_retry" /\ ~NewlyLogged("gate_failed")

\* C12: each Retry round stops at whichever of its bounds comes first: an attempt
\* of node resolution is made only with its 60-second deadline not yet passed and
\* fewer than 8 attempts made, and an attempt of the gate only with its 600-second
\* deadline not yet passed and fewer than 10 attempts made.
C12_WhicheverFirst ==
    /\ [][IsRunAttempt => (runLeft > 0 /\ runTries < RunAttempts)]_vars
    /\ [][IsGateAttempt => (gateLeft > 0 /\ gateTries < GateAttempts)]_vars

\* the gate's deadline has passed with attempts left, after several attempts
C12_Witness ==
    /\ pc = "gate_retry"
    /\ gateTries \in 1..(GateAttempts - 1)
    /\ gateLeft = 0
    /\ "gate_failed" \notin logged

-----------------------------------------------------------------------------
(* Progress of the Collection Loop (SpecLive).                             *)

\* C13: once started, the Collection Loop never ends: from every position of a
\* cycle, and after a failed Buckets(), a failed Servers() (an empty URL) or a
\* failed stats GET, it reaches its sleep, and from its sleep it begins the next
\* cycle.
C13_LoopNeverTerminates ==
    /\ [][loopPc # "idle" => loopPc' # "idle"]_vars
    /\ (loopPc \in {"list", "range", "get"}) ~> (loopPc = "sleep")
    /\ (loopPc = "sleep") ~> (loopPc = "list")

\* a cycle in which the stats GET of the last bucket has failed, before its sleep
C13_Witness ==
    /\ loopPc = "range"
    /\ ~buckets.err
    /\ bi = Len(BucketList) + 1
    /\ fetch.bucket # ""
    /\ fetch.err

\* a cycle whose Buckets() has failed / whose URL lookup gave no URL
C13_WitnessBuckets == loopPc = "range" /\ buckets.err
C13_WitnessNoURL == loopPc = "get" /\ fetch.url = ""

-----------------------------------------------------------------------------
(* Failures inside a cycle (Spec, SpecFn).                                 *)

\* the cells of the registry that belong to a bucket
CellsOf(g, bucket) == {c \in DOMAIN g : c[2] = bucket}

\* C14: when the stats GET of a bucket fails, the step writes no gauge: the
\* registry after it is the registry before it, so every cell of that bucket
\* (and of every other) keeps the value of the last successful cycle, none is
\* zeroed or removed; and the loop goes on to the next bucket of the list.
C14_StaleOnFailedGet ==
    [][(loopPc = "get" /\ fetch'.err) =>
          /\ gauges' = gauges
          /\ fetch'.writes = <<>>
          /\ loopPc' = "range"
          /\ bi' = bi + 1]_vars

\* the GET of a resolved URL has failed for a bucket with published cells, and
\* another bucket of the list is still to be processed
C14_Witness ==
    /\ loopPc = "range"
    /\ fetch.err
    /\ fetch.url # ""
    /\ CellsOf(gauges, fetch.bucket) # {}
    /\ bi <= Len(BucketList)

\* no server of the reply has the node's hostname, or Servers() failed
NoServerMatches(serversRes, nodeName) ==
    \/ serversRes.err
    \/ \A i \in 1..Len(serversRes.val) : serversRes.val[i].Hostname # nodeName

\* C15: when Servers() fails or no server of the bucket has the hostname of the
\* node, the URL looked up is the empty string, the GET made with it fails (and
\* is logged), getPerNodeBucketStats returns with nil samples, and the loop body
\* writes no gauge for that bucket.
C15_EmptyURL ==
    (fnCall.fn = "getPerNodeBucketStats" /\ NoServerMatches(fnCall.servers, fnCall.node)) =>
        /\ fnRet.url = ""
        /\ fnRet.err
        /\ fnRet.samples = EmptyMap
        /\ fnRet.writes = <<>>

\* two servers with a stats URI each, neither with the node's hostname
C15_Witness ==
    /\ fnCall.fn = "getPerNodeBucketStats"
    /\ ~fnCall.servers.err
    /\ Len(fnCall.servers.val) = 2
    /\ fnCall.node = "node1"
    /\ \A i \in 1..2 : /\ fnCall.servers.val[i].Hostname = "node2"
                       /\ "uri" \in DOMAIN fnCall.servers.val[i].Stats
    /\ fnRet.url = ""
    /\ fnRet.err

\* Servers() has failed
C15_WitnessServersFailed ==
    fnCall.fn = "getPerNodeBucketStats" /\ fnCall.servers.err /\ fnRet.url = "" /\ fnRet.err

-----------------------------------------------------------------------------
(* Labels, node resolution and return of the call chain (Spec, SpecLive).  *)

\* C16: the node identity and the cluster name are resolved before the first
\* gauge write (the loop exists only once ClusterName() has succeeded and the
\* call chain has gone through node resolution), every gauge write of every
\* cycle carries that node and that cluster name as its labels, and neither
\* changes once the loop runs.
C16_LabelsConstant ==
    /\ []((loopPc # "idle" \/ DOMAIN gauges # {}) =>
            (clusterName \in ClusterNames /\ pc = "done"))
    /\ [](\A c \in DOMAIN gauges : c[3] = node /\ c[4] = clusterName)
    /\ [](\A i \in 1..Len(fetch.writes) :
             fetch.writes[i].cell[3] = node /\ fetch.writes[i].cell[4] = clusterName)
    /\ [][loopPc # "idle" => (node' = node /\ clusterName' = clusterName)]_vars

\* cells of both buckets, written in one or more cycles, carry the resolved labels
C16_Witness ==
    /\ loopPc = "sleep"
    /\ node = "node2"
    /\ \A b \in BucketNames : CellsOf(gauges, b) # {}
    /\ \A c \in DOMAIN gauges : c[3] = "node2" /\ c[4] = "prod"

\* C17: an attempt of node resolution whose Nodes() fails does not call
\* collectPerNodeBucketMetrics (no gate context, no cluster name, no goroutine)
\* and is counted and tried again; the Retry gives up only with its attempts
\* or its deadline spent.  A successful Nodes() with no flagged node counts as
\* success with the identity "": collectPerNodeBucketMetrics is called, node
\* resolution is never tried again, and the loop runs with the node label "".
C17_ResolveRetry ==
    /\ [][(pc = "run_retry" /\ pc' = "run_retry") =>
             /\ runTries' = runTries + 1
             /\ UNCHANGED <<gateLeft, node, clusterName, spawned, loopPc, logged>>]_vars
    /\ [][(pc = "run_retry" /\ pc' = "done") =>
             /\ runTries = RunAttempts \/ runLeft = 0
             /\ NewlyLogged("run_failed")]_vars
    /\ [][(pc = "run_retry" /\ pc' = "collect") =>
             /\ node' \in Hostnames \cup {""}
             /\ gateLeft' = GateDeadline]_vars
    /\ [][pc # "run_retry" => (pc' # "run_retry" /\ node' = node)]_vars

\* with no flagged node the loop has been started with the node label ""
C17_Witness ==
    /\ node = ""
    /\ spawned = 1
    /\ loopPc = "get"
    /\ "run_failed" \notin logged

\* a failed attempt of node resolution, about to be tried again
C17_WitnessRetry == pc = "run_retry" /\ runTries = 1 /\ runLeft > 0

\* C20: a gate attempt whose node-list fetch fails is treated as a gate that is
\* not ready: it is counted, nothing is started, and the check is made again
\* while attempts and time remain; the gate ends only by a balanced reply, which
\* starts the loop, or with its budget spent, which logs the failure.
C20_GateFetchErrorRetried ==
    /\ [][(pc = "gate_retry" /\ pc' = "gate_retry") =>
             /\ gateTries' = gateTries + 1
             /\ ~rebalanced'
             /\ UNCHANGED <<spawned, loopPc, logged>>]_vars
    /\ [][(pc = "gate_retry" /\ pc' = "done") =>
             \/ rebalanced' /\ spawned' = 1
             \/ GateBudgetSpent /\ NewlyLogged("gate_failed")]_vars
    /\ [](gateErr => (pc = "gate_retry" /\ ~rebalanced /\ "gate_failed" \notin logged))
    /\ [][(gateErr /\ ~GateBudgetSpent) => ~NewlyLogged("gate_failed")]_vars

\* the last gate check failed to fetch the node list, and the gate is about to
\* check again
C20_Witness ==
    /\ gateErr
    /\ pc = "gate_retry"
    /\ gateTries \in 1..(GateAttempts - 1)
    /\ gateLeft > 0

\* C18: RunPerNodeBucketStatsCollection returns after finitely many steps in
\* every run (node resolution exhausted, cluster name not read, gate exhausted,
\* or loop started), and having returned it does nothing more: a failure is only
\* logged on the way.
C18_RunReturns ==
    /\ <>(pc = "done")
    /\ [][pc = "done" => UNCHANGED runVars]_vars
    /\ []((pc = "done" /\ spawned = 0) =>
            logged \cap {"run_failed", "gate_failed", "cluster_name_error"} # {})

\* returned with the loop started / after each of the two Retry rounds gave up
C18_Witness == pc = "done" /\ spawned = 1 /\ loopPc = "sleep" /\ logged = {"loop_started"}
C18_WitnessRunExhausted == pc = "done" /\ logged = {"run_failed"} /\ spawned = 0
C18_WitnessGateExhausted == pc = "done" /\ logged = {"gate_failed"} /\ spawned = 0

-----------------------------------------------------------------------------
(* The bucket list of a cycle (Spec).                                      *)

\* the cells a step sets or changes
ChangedCells == {c \in DOMAIN gauges' : c \notin DOMAIN gauges \/ gauges'[c] # gauges[c]}

\* C19: every cycle begins by calling Buckets() and works on that reply alone:
\* the buckets of the reply are taken one by one in its order, each gets its
\* URL lookup, GET and gauge writes in this cycle, the sleep comes only after
\* the last of them, and a gauge is written only for the bucket at hand, which
\* is in this cycle's reply; a bucket absent from the reply gets no write.
C19_FreshBucketList ==
    /\ [][loopPc = "list" => (loopPc' = "range" /\ bi' = 1 /\ buckets' \in BucketsResults)]_vars
    /\ []((loopPc \in {"range", "get"} /\ buckets.err) => bi = 1 /\ loopPc = "range")
    /\ [](loopPc = "range" /\ ~buckets.err => bi \in 1..(Len(buckets.val) + 1))
    /\ [](loopPc = "get" =>
            (~buckets.err /\ bi \in 1..Len(buckets.val) /\ fetch.bucket = buckets.val[bi]))
    /\ [][(loopPc = "range" /\ loopPc' = "get") => (bi' = bi /\ buckets' = buckets)]_vars
    /\ [][loopPc = "get" => (loopPc' = "range" /\ bi' = bi + 1 /\ buckets' = buckets)]_vars
    /\ [][loopPc' = "sleep" => (buckets.err \/ bi = Len(buckets.val) + 1)]_vars
    /\ [][gauges' # gauges =>
             /\ loopPc = "get"
             /\ \A c \in ChangedCells : c[2] = buckets.val[bi]]_vars

\* a cycle whose reply lists only "default" has published it, while "beer",
\* listed in an earlier cycle, keeps its cells
C19_Witness ==
    /\ loopPc = "range"
    /\ buckets = Ok(<<"default">>)
    /\ bi = 2
    /\ fetch.writes # <<>>
    /\ CellsOf(gauges, "beer") # {}

\* a bucket not published before is published in the cycle that lists it
C19_WitnessNew ==
    /\ loopPc = "range"
    /\ buckets = Ok(<<"default", "beer">>)
    /\ bi = 3
    /\ fetch.bucket = "beer"
    /\ CellsOf(gauges, "beer") = {fetch.writes[i].cell : i \in 1..Len(fetch.writes)}
    /\ CellsOf(gauges, "beer") # {}

-----------------------------------------------------------------------------
(* Order inside a cycle, and what a reader of the registry can see (Spec). *)

\* C21: in a cycle the buckets are taken one at a time in the order of the
\* reply: the stats fetch of the bucket at index bi starts with no write made for
\* it, the writes of a step are all for the bucket at hand, the bucket before it
\* has all its writes in the registry by then, and the cycle's one sleep begins
\* only after the last bucket and ends in the next cycle.
C21_SequentialBuckets ==
    /\ [][(loopPc = "range" /\ loopPc' = "get") =>
             (fetch'.bucket = buckets.val[bi] /\ fetch'.writes = <<>> /\ gauges' = gauges)]_vars
    /\ [][loopPc = "get" =>
             /\ \A c \in ChangedCells : c[2] = buckets.val[bi]
             /\ \A i \in 1..Len(fetch'.writes) : fetch'.writes[i].cell[2] = buckets.val[bi]]_vars
    /\ []((loopPc \in {"range", "get"} /\ bi > 1 /\ fetch.writes # <<>>) =>
            /\ fetch.bucket = buckets.val[bi - 1]
            /\ \A i \in 1..Len(fetch.writes) : fetch.writes[i].cell \in DOMAIN gauges)
    /\ [][(loopPc # "sleep" /\ loopPc' = "sleep") =>
             (loopPc = "range" /\ bi = Len(BucketList) + 1)]_vars
    /\ [][loopPc = "sleep" => loopPc' = "list"]_vars

\* the fetch of the second bucket of the list is under way: the first bucket
\* has its cells, the second has none yet
C21_Witness ==
    /\ loopPc = "get"
    /\ bi = 2
    /\ fetch.bucket = buckets.val[2]
    /\ CellsOf(gauges, buckets.val[1]) # {}
    /\ CellsOf(gauges, buckets.val[2]) = {}

\* C22: there is no publish boundary around a cycle: a step that writes gauges
\* writes those of one bucket only and leaves every cell of every other bucket
\* as it was, and the registry can be read between that step and the next, so a
\* reader can find one bucket at the values of this cycle and another still at
\* those of an earlier cycle.
C22_NoPublishBoundary ==
    [][gauges' # gauges =>
          /\ \A c \in ChangedCells : c[2] = fetch'.bucket
          /\ \A c \in DOMAIN gauges :
                c[2] # fetch'.bucket => (c \in DOMAIN gauges' /\ gauges'[c] = gauges[c])
          /\ loopPc' = "range"]_vars

\* in a cycle over two buckets the first has just been given a new curr_items
\* value while the second, not yet processed in this cycle, still shows the
\* different value of an earlier cycle
C22_Witness ==
    /\ loopPc = "range"
    /\ ~buckets.err
    /\ Len(buckets.val) = 2
    /\ bi = 2
    /\ fetch.bucket = buckets.val[1]
    /\ LET new == Cell("CurrItems", buckets.val[1], node, clusterName)
           old == Cell("CurrItems", buckets.val[2], node, clusterName)
       IN  /\ \E i \in 1..Len(fetch.writes) : fetch.writes[i].cell = new
           /\ old \in DOMAIN gauges
           /\ gauges[old] # gauges[new]

-----------------------------------------------------------------------------
(* Sample fields that are lists of numbers (SpecFn).                       *)

\* C23: publishing a field whose value is a non-empty list of numbers leaves the
\* cell holding the last number of the list.
C23_ListLastPublished ==
    (fnCall.fn = "publish" /\ fnCall.sample.kind = "list" /\ fnCall.sample.xs # <<>>) =>
        /\ FnCellOf(fnCall) \in DOMAIN fnRet
        /\ fnRet[FnCellOf(fnCall)] = fnCall.sample.xs[Len(fnCall.sample.xs)]

\* what the code does with the list [10 20 30]: only the piece "20" of
\* "[10 20 30]" reads as a float, and 20 is published
ListMiddlePublished ==
    (fnCall.fn = "publish" /\ fnCall.sample = List10x20x30) =>
        /\ Sprint(fnCall.sample) = <<"[", "1", "0", " ", "2", "0", " ", "3", "0", "]">>
        /\ fnRet[FnCellOf(fnCall)] = Float(20, 0)

-----------------------------------------------------------------------------
(* What the call chain does after node resolution (Spec).                  *)

\* C24: when ClusterName() fails, collectPerNodeBucketMetrics returns at once:
\* the gate is never checked, no goroutine is started, node resolution's
\* callback still returns true so that neither Retry tries again, and no gauge is
\* written in the rest of the run.
C24_ClusterNameFails ==
    /\ [][NewlyLogged("cluster_name_error") => (pc = "collect" /\ pc' = "done")]_vars
    /\ []("cluster_name_error" \in logged =>
            /\ pc = "done"
            /\ logged = {"cluster_name_error"}
            /\ clusterName = ""
            /\ gateTries = 0 /\ ~rebalanced /\ ~gateErr
            /\ spawned = 0 /\ loopPc = "idle"
            /\ DOMAIN gauges = {})

\* the run has ended on a failed ClusterName(), after a node was resolved
C24_Witness ==
    /\ "cluster_name_error" \in logged
    /\ pc = "done"
    /\ node \in Hostnames
    /\ spawned = 0

\* C25: once getCurrentNode has succeeded the node-resolution callback
\* returns true whatever the gate did: from the call of
\* collectPerNodeBucketMetrics on, the run never goes back to node resolution
\* and never calls collectPerNodeBucketMetrics a second time, also after the
\* gate has given up.
C25_ResolveOnce ==
    /\ [][pc = "collect" => pc' \in {"collect", "gate_retry", "done"}]_vars
    /\ [][pc = "gate_retry" => pc' \in {"gate_retry", "done"}]_vars
    /\ [][pc = "done" => pc' = "done"]_vars
    /\ [][pc # "run_retry" => UNCHANGED <<node, runTries>> \/ (pc' = "done" /\ runTries' = 0)]_vars
    /\ []("gate_failed" \in logged => (pc = "done" /\ "run_failed" \notin logged))

\* the run has ended after the gate gave up, with node resolution not failed
C25_Witness ==
    /\ pc = "done"
    /\ logged = {"gate_failed"}
    /\ node \in Hostnames
    /\ clusterName \in ClusterNames

\* C26: the gate is checked only before the goroutine is started: while the
\* Collection Loop exists the call chain has returned, getClusterBalancedStatus
\* is not called again (the last gate result stays the balanced one that started
\* the loop, and no attempt is counted), and the loop is never stopped.
C26_GateOnlyBeforeLoop ==
    /\ [](loopPc # "idle" => (pc = "done" /\ rebalanced /\ ~gateErr /\ spawned = 1))
    /\ [][loopPc # "idle" =>
             /\ UNCHANGED <<pc, rebalanced, gateErr, gateTries, gateLeft, spawned, logged>>
             /\ loopPc' # "idle"]_vars

\* the loop is in a later cycle, with gauges from an earlier one, and the
\* call chain returned long ago
C26_Witness ==
    /\ loopPc = "list"
    /\ DOMAIN gauges # {}
    /\ pc = "done"
    /\ rebalanced
    /\ gateTries = 0

\* C27: the gate's 600-second deadline does not depend on node resolution's
\* 60-second deadline: while both run the gate's deadline lies at least 540
\* seconds after the other, and with the 60 seconds over and the gate's own
\* attempts and time not spent the gate does not give up, can check again, and a
\* balanced reply still starts the goroutine.
C27_GateDeadlineIndependent ==
    /\ []((pc = "gate_retry" /\ runLeft > 0) =>
            gateLeft >= runLeft + (GateDeadline - RunDeadline))
    /\ []((pc = "gate_retry" /\ runLeft = 0 /\ ~GateBudgetSpent) =>
            ENABLED (GateAttempt /\ spawned' = 1))
    /\ [][(pc = "gate_retry" /\ runLeft = 0 /\ ~GateBudgetSpent) =>
             /\ ~NewlyLogged("gate_failed")
             /\ rebalanced' => (spawned' = 1 /\ loopPc' = "list" /\ pc' = "done")]_vars

\* the gate is still waiting, with attempts and time left, after the 60 seconds
\* of node resolution are over
C27_Witness ==
    /\ pc = "gate_retry"
    /\ runLeft = 0
    /\ gateTries \in 3..(GateAttempts - 1)
    /\ gateLeft > 0
    /\ gateLeft <= GateDeadline - RunDeadline

-----------------------------------------------------------------------------
(* The registry over the cycles (Spec).                                    *)

\* C28: gauge cells are only ever set: no step removes a cell, so the set of
\* cells with a value only grows, and a cell changes its value only in the step
\* that processes its bucket; the cells of a bucket no longer listed keep their
\* values through every later cycle.
C28_CellsNeverDeleted ==
    [][\A c \in DOMAIN gauges :
          /\ c \in DOMAIN gauges'
          /\ gauges'[c] # gauges[c] =>
                (loopPc = "get" /\ ~buckets.err /\ c[2] = buckets.val[bi])]_vars

\* a cycle whose Buckets() reply is empty, with both buckets' cells, published
\* in earlier cycles, still in the registry
C28_Witness ==
    /\ loopPc = "range"
    /\ buckets = Ok(<<>>)
    /\ \A b \in BucketNames : CellsOf(gauges, b) # {}

\* C29: in a cycle whose Buckets() has failed the range runs over no bucket:
\* the only step the loop can take is to begin its sleep, which makes no
\* Servers() call, no GET and no gauge write, and the next Buckets() call comes
\* only after that sleep.
C29_BucketsFails ==
    /\ []((loopPc \in {"range", "get"} /\ buckets.err) =>
            (loopPc = "range" /\ bi = 1 /\ fetch = NoFetch
             /\ ENABLED Sleep /\ ~ENABLED ResolveURL /\ ~ENABLED ListBuckets))
    /\ [][(loopPc = "range" /\ buckets.err) =>
             (loopPc' = "sleep" /\ gauges' = gauges /\ fetch' = NoFetch)]_vars
    /\ [][(loopPc # "list" /\ loopPc' = "list") => loopPc \in {"idle", "sleep"}]_vars

\* Buckets() has failed in a cycle that follows one which published gauges
C29_Witness ==
    /\ loopPc = "range"
    /\ buckets.err
    /\ DOMAIN gauges # {}

-----------------------------------------------------------------------------
(* Tie-breaking of the two list scans (SpecFn).                            *)

\* C30: when several nodes carry the this-node flag, getCurrentNode returns
\* the hostname of the first of them in list order; when several servers of a
\* bucket have the node's hostname, getSpecificNodeBucketStatsURL returns the
\* "uri" entry of the last of them in list order, and "" when that last match
\* has no "uri" entry.
C30_TieBreaking ==
    /\ (fnCall.fn = "getCurrentNode" /\ ~fnCall.nodes.err) =>
          LET ns == fnCall.nodes.val.Nodes
          IN  \A i \in 1..Len(ns) :
                 (ns[i].ThisNode /\ \A j \in 1..(i - 1) : ~ns[j].ThisNode) =>
                    (fnRet.host = ns[i].Hostname /\ ~fnRet.err)
    /\ (fnCall.fn = "getSpecificNodeBucketStatsURL" /\ ~fnCall.servers.err) =>
          LET ss == fnCall.servers.val
          IN  \A i \in 1..Len(ss) :
                 (/\ ss[i].Hostname = fnCall.node
                  /\ \A j \in (i + 1)..Len(ss) : ss[j].Hostname # fnCall.node) =>
                    fnRet = (IF "uri" \in DOMAIN ss[i].Stats THEN ss[i].Stats["uri"] ELSE "")

\* two servers with the node's hostname and different URIs: the second one's
\* URI is returned
C30_Witness ==
    /\ fnCall.fn = "getSpecificNodeBucketStatsURL"
    /\ ~fnCall.servers.err
    /\ Len(fnCall.servers.val) = 2
    /\ \A i \in 1..2 : fnCall.servers.val[i].Hostname = fnCall.node
    /\ fnCall.servers.val[1].Stats = [x \in {"uri"} |-> "uri1"]
    /\ fnCall.servers.val[2].Stats = [x \in {"uri"} |-> "uri2"]
    /\ fnRet = "uri2"

\* the last of two matching servers has no "uri" entry: "" is returned although
\* the first match has one
C30_WitnessNoUri ==
    /\ fnCall.fn = "getSpecificNodeBucketStatsURL"
    /\ ~fnCall.servers.err
    /\ Len(fnCall.servers.val) = 2
    /\ \A i \in 1..2 : fnCall.servers.val[i].Hostname = fnCall.node
    /\ "uri" \in DOMAIN fnCall.servers.val[1].Stats
    /\ "uri" \notin DOMAIN fnCall.servers.val[2].Stats
    /\ fnRet = ""

\* two flagged nodes with different hostnames: the first one's is returned
C30_WitnessFirstFlagged ==
    /\ fnCall.fn = "getCurrentNode"
    /\ ~fnCall.nodes.err
    /\ fnCall.nodes.val.Nodes = <<[Hostname |-> "node2", ThisNode |-> TRUE],
                                  [Hostname |-> "node1", ThisNode |-> TRUE]>>
    /\ fnRet.host = "node2"

====
